---- MODULE Spec2Model ----
(***************************************************************************)
(* Model of the weathersensor module (package models, src/Makefile lines   *)
(* 34-273; process entry point src/main.go).                               *)
(*                                                                         *)
(* The adapter is one struct (temperatureSensor, apiKey, zipcode) driven   *)
(* by the host: the host validates a Config, constructs or reconfigures    *)
(* the adapter with it, asks for Readings and finally closes the adapter.  *)
(* The world outside the adapter (the weather API's HTTP replies, the      *)
(* dependency sensor's reply, the current date) is chosen freely from      *)
(* bounded sets at every call.                                             *)
(*                                                                         *)
(* Go values of type any are tagged records: Null is the nil interface     *)
(* (also what a JSON null decodes to), Num a float64 kept as an exact      *)
(* fraction n/d, Str a string, Obj a non-nil map[string]any whose entries  *)
(* are the function o.  A nil map[string]any is written Null as well:      *)
(* indexing it yields nil, exactly like indexing a missing key.            *)
(***************************************************************************)
EXTENDS Integers, Sequences, FiniteSets

VARIABLES
    constructed,        \* the host holds an adapter instance
    closed,             \* Close has been called on that instance
    temperatureSensor,  \* s.temperatureSensor: the resolved dependency or NilSensor
    apiKey,             \* s.apiKey
    zipcode,            \* s.zipcode
    lastOp,             \* the operation the host ran last
    lastArg,            \* the Config that operation was given (NoConf if none)
    ret,                \* what that operation returned
    calls               \* the outbound calls that operation made, in order

vars == <<constructed, closed, temperatureSensor, apiKey, zipcode, lastOp, lastArg, ret, calls>>

----------------------------------------------------------------------------
(* Bounds of the model *)

MaxZipcode == 2
MaxHundreds == 1

(* Program constants *)

StatusOK == 200

currentWeatherURL == "https://api.weatherapi.com/v1/current.json"
astronomyURL == "https://api.weatherapi.com/v1/astronomy.json"

----------------------------------------------------------------------------
(* Go values *)

Null == [t |-> "null"]
Str(x) == [t |-> "str", s |-> x]
Obj(f) == [t |-> "obj", o |-> f]
Arr == [t |-> "arr"]
Garbage == [t |-> "garbage"]
EmptyMap == [k \in {} |-> Null]

RECURSIVE GCD(_, _)
GCD(a, b) == IF b = 0 THEN a ELSE GCD(b, a % b)

Abs(x) == IF x < 0 THEN -x ELSE x

\* A float64 as the exact fraction n/d in lowest terms, d > 0.
Rat(n, d) ==
    LET g == GCD(Abs(n), d)
    IN  [t |-> "num", n |-> n \div g, d |-> d \div g]

Num(n) == Rat(n, 1)

\* m[k] on a map[string]any: nil for a missing key and for a nil map.
MapIndex(m, k) == IF m.t = "obj" /\ k \in DOMAIN m.o THEN m.o[k] ELSE Null

\* v.(map[string]any) succeeds; otherwise the type assertion panics.
IsMap(v) == v.t = "obj"

\* v.(float64) succeeds; otherwise the type assertion panics.
IsFloat64(v) == v.t = "num"

NoErr == [kind |-> "nil"]

\* errors.Wrapf(err, context)
Wrapf(err, context) == [kind |-> "Wrapped", context |-> context, cause |-> err]

----------------------------------------------------------------------------
(* Configuration *)

NilSensor == "<nil>"
NoConf == [TemperatureSensor |-> "", Zipcode |-> 0, APIKey |-> ""]

SensorNames == {"t1", "t2"}
\* "k3\n" is a key saved with its trailing newline.
ApiKeys == {"k1", "k3\n"}
CTLKeys == {"k3\n"}
Zipcodes == 1..MaxZipcode

Configs ==
    [TemperatureSensor : SensorNames \cup {""},
     Zipcode : Zipcodes \cup {0},
     APIKey : ApiKeys \cup {""}]

\* The dependencies the host hands over: the names that resolve to a sensor.
DepSets == {{}, {"t1"}, {"t1", "t2"}}

\* Validate with the zipcode test moved before the apikey test.
ValidateZipcodeBeforeKey(cfg) ==
    IF cfg.TemperatureSensor = "" THEN
        [deps |-> <<>>, err |-> [kind |-> "ValidationError", attribute |-> "temp-sensor"]]
    ELSE IF cfg.Zipcode = 0 THEN
        [deps |-> <<>>, err |-> [kind |-> "ValidationError", attribute |-> "zipcode"]]
    ELSE IF cfg.APIKey = "" THEN
        [deps |-> <<>>, err |-> [kind |-> "ValidationError", attribute |-> "apikey"]]
    ELSE
        [deps |-> <<cfg.TemperatureSensor>>, err |-> NoErr]

\* Config.Validate: the required dependencies and the error.
Validate(cfg) ==
    IF cfg.TemperatureSensor = "" THEN
        [deps |-> <<>>, err |-> [kind |-> "ValidationError", attribute |-> "temp-sensor"]]
    ELSE IF cfg.APIKey = "" THEN
        [deps |-> <<>>, err |-> [kind |-> "ValidationError", attribute |-> "apikey"]]
    ELSE IF cfg.Zipcode = 0 THEN
        [deps |-> <<>>, err |-> [kind |-> "ValidationError", attribute |-> "zipcode"]]
    ELSE
        [deps |-> <<cfg.TemperatureSensor>>, err |-> NoErr]

\* sensor.FromDependencies(deps, name): the zero value and an error when the
\* name does not resolve to a sensor.
FromDependencies(deps, name) ==
    IF name \in deps
    THEN [sensor |-> name, err |-> NoErr]
    ELSE [sensor |-> NilSensor, err |-> [kind |-> "DependencyNotFound", name |-> name]]

\* The adapter struct's configuration fields.
Adapter(ts, key, zip) == [temperatureSensor |-> ts, apiKey |-> key, zipcode |-> zip]

ZeroAdapter == Adapter(NilSensor, "", 0)

\* weathersensorWeathersensor.Reconfigure: the struct afterwards and the error.
\* The result of FromDependencies is stored in the field before the error is
\* looked at.
Reconfigure(s, deps, conf) ==
    LET r == FromDependencies(deps, conf.TemperatureSensor)
        s1 == [s EXCEPT !.temperatureSensor = r.sensor]
    IN  IF r.err # NoErr
        THEN [s |-> s1,
              err |-> Wrapf(r.err, "unable to get temperature sensor for weather sensor")]
        ELSE [s |-> [s1 EXCEPT !.apiKey = conf.APIKey, !.zipcode = conf.Zipcode],
              err |-> NoErr]

\* newWeathersensorWeathersensor: a fresh struct, reconfigured; no instance
\* is returned when Reconfigure fails.
newWeathersensorWeathersensor(deps, conf) ==
    LET r == Reconfigure(ZeroAdapter, deps, conf)
    IN  IF r.err # NoErr
        THEN [ok |-> FALSE, s |-> ZeroAdapter, err |-> r.err]
        ELSE [ok |-> TRUE, s |-> r.s, err |-> NoErr]

----------------------------------------------------------------------------
(* Weather client *)

Dates == {"2026-11-04"}

\* What the weather API's side of one GET can do.
DoErr == [kind |-> "doErr"]
ReadErr(status) == [kind |-> "readErr", status |-> status]
Resp(status, body) == [kind |-> "resp", status |-> status, body |-> body]

\* http.NewRequest parses the URL; a control character in it is an error.
NewRequestOK(url) == url.key \notin CTLKeys

\* json.Unmarshal(body, &responseJSON) with responseJSON a map[string]any:
\* an object fills the map, null leaves it nil, anything else is an error.
Unmarshal(body) ==
    IF body.t = "obj" THEN [m |-> body, err |-> NoErr]
    ELSE IF body.t = "null" THEN [m |-> Null, err |-> NoErr]
    ELSE [m |-> Null, err |-> [kind |-> "DecodeError"]]

\* v, ok := m[k]
HasKey(m, k) == m.t = "obj" /\ k \in DOMAIN m.o

\* getWeatherBodyOrCode with the status inspected before the parse result.
getWeatherBodyOrCodeStatusFirst(url, reply) ==
    IF ~NewRequestOK(url) THEN
        [sent |-> FALSE, body |-> Null, err |-> [kind |-> "RequestError"]]
    ELSE IF reply.kind = "doErr" THEN
        [sent |-> TRUE, body |-> Null, err |-> [kind |-> "TransportError", stage |-> "do"]]
    ELSE IF reply.kind = "readErr" THEN
        [sent |-> TRUE, body |-> Null, err |-> [kind |-> "TransportError", stage |-> "read"]]
    ELSE IF reply.status # 200 THEN
        LET u == Unmarshal(reply.body)
        IN  IF ~HasKey(u.m, "code") THEN
                [sent |-> TRUE, body |-> Null,
                 err |-> [kind |-> "UnexpectedStatusError", status |-> reply.status, missing |-> "code"]]
            ELSE IF ~HasKey(u.m, "message") THEN
                [sent |-> TRUE, body |-> Null,
                 err |-> [kind |-> "UnexpectedStatusError", status |-> reply.status, missing |-> "message"]]
            ELSE
                [sent |-> TRUE, body |-> u.m,
                 err |-> [kind |-> "APIError", status |-> reply.status,
                          code |-> MapIndex(u.m, "code"), message |-> MapIndex(u.m, "message")]]
    ELSE
        LET u == Unmarshal(reply.body)
        IN  IF u.err # NoErr
            THEN [sent |-> TRUE, body |-> Null, err |-> u.err]
            ELSE [sent |-> TRUE, body |-> u.m, err |-> NoErr]

\* weathersensorWeathersensor.getWeatherBodyOrCode: whether a request went
\* out, the returned map and the returned error.  The API error carries the
\* body's code and message as values (the text renders them with %d and %s).
getWeatherBodyOrCode(url, reply) ==
    IF ~NewRequestOK(url) THEN
        [sent |-> FALSE, body |-> Null, err |-> [kind |-> "RequestError"]]
    ELSE IF reply.kind = "doErr" THEN
        [sent |-> TRUE, body |-> Null, err |-> [kind |-> "TransportError", stage |-> "do"]]
    ELSE IF reply.kind = "readErr" THEN
        [sent |-> TRUE, body |-> Null, err |-> [kind |-> "TransportError", stage |-> "read"]]
    ELSE
        LET u == Unmarshal(reply.body)
        IN  IF u.err # NoErr THEN
                [sent |-> TRUE, body |-> Null, err |-> u.err]
            ELSE IF reply.status # StatusOK THEN
                IF ~HasKey(u.m, "code") THEN
                    [sent |-> TRUE, body |-> Null,
                     err |-> [kind |-> "UnexpectedStatusError", status |-> reply.status, missing |-> "code"]]
                ELSE IF ~HasKey(u.m, "message") THEN
                    [sent |-> TRUE, body |-> Null,
                     err |-> [kind |-> "UnexpectedStatusError", status |-> reply.status, missing |-> "message"]]
                ELSE
                    [sent |-> TRUE, body |-> u.m,
                     err |-> [kind |-> "APIError", status |-> reply.status,
                              code |-> MapIndex(u.m, "code"), message |-> MapIndex(u.m, "message")]]
            ELSE
                [sent |-> TRUE, body |-> u.m, err |-> NoErr]

\* The URL of getCurrentWeather, by its parts.
CurrentURL(s) == [endpoint |-> currentWeatherURL, q |-> s.zipcode, dt |-> "", key |-> s.apiKey]

\* The URL of getCurrentAstronomy, by its parts; today is time.Now() formatted.
AstronomyURL(s, today) == [endpoint |-> astronomyURL, q |-> s.zipcode, dt |-> today, key |-> s.apiKey]

\* One entry of the log of outbound calls: which step, where to, with which
\* adapter fields, what came back and what the callee handed to Readings.
Call(op, s, url, reply, body, err) ==
    [op |-> op, s |-> s, url |-> url, reply |-> reply, body |-> body, err |-> err]

\* getCurrentWeather / getCurrentAstronomy: the fetch and the log of it.
Fetch(op, s, url, reply) ==
    LET r == getWeatherBodyOrCode(url, reply)
    IN  [body |-> r.body, err |-> r.err,
         log |-> IF r.sent THEN <<Call(op, s, url, reply, r.body, r.err)>> ELSE <<>>]

getCurrentWeather(s, reply) == Fetch("current", s, CurrentURL(s), reply)

getCurrentAstronomy(s, today, reply) == Fetch("astronomy", s, AstronomyURL(s, today), reply)

----------------------------------------------------------------------------
(* Reading composer *)

\* What Readings hands back: a mapping and an error, or a panic that unwinds
\* out of Readings without a return value.
Return(output, err) == [kind |-> IF err = NoErr THEN "ok" ELSE "err", output |-> output, err |-> err]
Panic(at) == [kind |-> "panic", output |-> Null, err |-> [kind |-> "Panic", at |-> at]]

\* Lines 185-193: the six weather entries of output, or the first type
\* assertion that panics.  Entries written without an assertion take
\* whatever the lookup yields, nil included.
ExtractWeather(response, astronomyResponse) ==
    LET currentWeather == MapIndex(response, "current")
        condition == MapIndex(currentWeather, "condition")
        astronomy == MapIndex(astronomyResponse, "astronomy")
        astro == MapIndex(astronomy, "astro")
    IN  IF ~IsMap(currentWeather) THEN [panic |-> TRUE, at |-> "current"]
        ELSE IF ~IsMap(condition) THEN [panic |-> TRUE, at |-> "current.condition"]
        ELSE IF ~IsFloat64(MapIndex(currentWeather, "cloud")) THEN [panic |-> TRUE, at |-> "current.cloud"]
        ELSE IF ~IsMap(astronomy) THEN [panic |-> TRUE, at |-> "astronomy"]
        ELSE IF ~IsMap(astro) THEN [panic |-> TRUE, at |-> "astronomy.astro"]
        ELSE [panic |-> FALSE,
              output |-> [outside_f |-> MapIndex(currentWeather, "temp_f"),
                          condition |-> MapIndex(condition, "text"),
                          code |-> MapIndex(condition, "code"),
                          cloud_cover_pct |-> MapIndex(currentWeather, "cloud"),
                          precipitation_inches |-> MapIndex(currentWeather, "precip_in"),
                          is_day |-> MapIndex(astro, "is_sun_up")]]

\* (insideTempC + 32)*9/5
CelsiusToFahrenheitAddFirst(c) == Rat((c.n + 32 * c.d) * 9, c.d * 5)

\* insideTempC*9/5 + 32
CelsiusToFahrenheit(c) == Rat(c.n * 9 + 32 * 5 * c.d, c.d * 5)

\* output["inside_c"] = f
SetInsideFAsInsideC(output, f) ==
    [k \in DOMAIN output \cup {"inside_c"} |-> IF k = "inside_c" THEN f ELSE output[k]]

\* output["inside_f"] = f
SetInsideF(output, f) ==
    [k \in DOMAIN output \cup {"inside_f"} |-> IF k = "inside_f" THEN f ELSE output[k]]

\* The dependency's error returned as it came.
SensorFailureUnwrapped(output, err) == Return(Null, err)

\* Lines 196-198: what Readings returns when the dependency's Readings fails.
SensorFailure(output, err) == Return(Null, Wrapf(err, "error getting reading from temp sensor"))

\* Lines 199-201: the conversion and the successful return.
Compose(output, readings) ==
    LET insideTempC == MapIndex(readings, "degrees_celsius")
    IN  IF ~IsFloat64(insideTempC)
        THEN Panic("degrees_celsius")
        ELSE Return(Obj(SetInsideF(output, CelsiusToFahrenheit(insideTempC))), NoErr)

----------------------------------------------------------------------------
(* The replies the outside world can give *)

Drop(f, k) == [x \in DOMAIN f \ {k} |-> f[x]]
Put(f, k, v) == [x \in DOMAIN f \cup {k} |-> IF x = k THEN v ELSE f[x]]

GoodCondition == [text |-> Str("Sunny"), code |-> Num(1000)]

GoodCurrent ==
    [temp_f |-> Num(72), condition |-> Obj(GoodCondition), cloud |-> Num(25), precip_in |-> Num(0)]

OtherCurrent ==
    [temp_f |-> Rat(311, 10), condition |-> Obj([text |-> Str("Light snow"), code |-> Num(1213)]),
     cloud |-> Num(100), precip_in |-> Rat(1, 10)]

\* The "current" object of a 200 reply: as documented, with one field
\* missing, with one field of another type, or with a field more.
CurrentShapes ==
    {GoodCurrent, OtherCurrent}
        \cup {Drop(GoodCurrent, k) : k \in DOMAIN GoodCurrent}
        \cup {Put(GoodCurrent, k, Str("?")) : k \in {"temp_f", "condition", "cloud"}}
        \cup {Put(GoodCurrent, "condition", Obj(Drop(GoodCondition, k))) : k \in DOMAIN GoodCondition}

CurrentBodies ==
    {Obj([current |-> Obj(c)]) : c \in CurrentShapes}
        \cup {Obj(EmptyMap), Obj([current |-> Str("?")])}

AstronomyBodies ==
    {Obj([astronomy |-> Obj([astro |-> Obj(a)])]) :
        a \in {[is_sun_up |-> Num(1)], [is_sun_up |-> Num(0)], EmptyMap}}
        \cup {Obj([astronomy |-> Obj(a)]) : a \in {EmptyMap, [astro |-> Str("?")]}}
        \cup {Obj(EmptyMap), Obj([astronomy |-> Str("?")])}

ApiErrorBody == [code |-> Num(1006), message |-> Str("No matching location found.")]

ErrorBodies == {Obj(ApiErrorBody), Obj(EmptyMap)} \cup {Obj(Drop(ApiErrorBody, k)) : k \in DOMAIN ApiErrorBody}

\* Bodies that are no JSON object: not JSON at all, a JSON array, JSON null.
NonObjects == {Garbage, Arr, Null}

\* The replies to the current-conditions GET: every kind of failure, and
\* every body under both a 200 and a 500 status where the status matters.
CurrentReplies ==
    {DoErr, ReadErr(StatusOK)}
        \cup {Resp(StatusOK, b) : b \in CurrentBodies \cup NonObjects \cup {Obj(ApiErrorBody)}}
        \cup {Resp(500, b) : b \in ErrorBodies \cup NonObjects \cup {Obj([current |-> Obj(GoodCurrent)])}}

\* The replies to the astronomy GET: the same client code handles them, so
\* one reply of each kind of failure is kept.
AstronomyReplies ==
    {DoErr, Resp(StatusOK, Garbage), Resp(500, Obj(ApiErrorBody)), Resp(500, Obj(EmptyMap))}
        \cup {Resp(StatusOK, b) : b \in AstronomyBodies}

CelsiusValues == {Num(100 * k) : k \in 0..MaxHundreds} \cup {Num(-40), Rat(43, 2)}

\* The dependency sensor's Readings: a mapping (possibly nil, possibly
\* without a float64 degrees_celsius) or an error.
SensorReplies ==
    {[readings |-> Null, err |-> [kind |-> "SensorError", cause |-> "offline"]],
     [readings |-> Obj(EmptyMap), err |-> NoErr],
     [readings |-> Obj([degrees_celsius |-> Str("?")]), err |-> NoErr],
     [readings |-> Obj([degrees_celsius |-> Num(0), humidity |-> Num(40)]), err |-> NoErr]}
        \cup {[readings |-> Obj([degrees_celsius |-> c]), err |-> NoErr] : c \in CelsiusValues}

----------------------------------------------------------------------------
(* Operations *)

Init ==
    /\ constructed = FALSE
    /\ closed = FALSE
    /\ temperatureSensor = NilSensor
    /\ apiKey = ""
    /\ zipcode = 0
    /\ lastOp = "none"
    /\ lastArg = NoConf
    /\ ret = Return(Null, NoErr)
    /\ calls = <<>>

\* The host-visible outcome of an operation.
Finish(op, arg, r, log) ==
    /\ lastOp' = op
    /\ lastArg' = arg
    /\ ret' = r
    /\ calls' = log

\* The host validates a configuration (Registration binds *Config and with
\* it Config.Validate).
HostValidate ==
    \E cfg \in Configs :
        LET v == Validate(cfg)
        IN  /\ Finish("Validate", cfg, [kind |-> IF v.err = NoErr THEN "ok" ELSE "err",
                                        output |-> v.deps, err |-> v.err], <<>>)
            /\ UNCHANGED <<constructed, closed, temperatureSensor, apiKey, zipcode>>

\* The host builds the adapter from a configuration that passed Validate.
HostConstruct ==
    /\ ~constructed \/ closed
    /\ \E cfg \in Configs, deps \in DepSets :
        /\ Validate(cfg).err = NoErr
        /\ LET n == newWeathersensorWeathersensor(deps, cfg)
           IN  /\ constructed' = n.ok
               /\ closed' = FALSE
               /\ temperatureSensor' = n.s.temperatureSensor
               /\ apiKey' = n.s.apiKey
               /\ zipcode' = n.s.zipcode
               /\ Finish("Construct", cfg, Return(Null, n.err), <<>>)

\* The host reconfigures the live adapter with a configuration that passed
\* Validate; reads and reconfigurations are serialized by the host.
HostReconfigure ==
    /\ constructed /\ ~closed
    /\ \E cfg \in Configs, deps \in DepSets :
        /\ Validate(cfg).err = NoErr
        /\ LET r == Reconfigure(Adapter(temperatureSensor, apiKey, zipcode), deps, cfg)
           IN  /\ temperatureSensor' = r.s.temperatureSensor
               /\ apiKey' = r.s.apiKey
               /\ zipcode' = r.s.zipcode
               /\ Finish("Reconfigure", cfg, Return(Null, r.err), <<>>)
    /\ UNCHANGED <<constructed, closed>>

\* weathersensorWeathersensor.Close: cancels the context, returns nil.
Close ==
    /\ constructed /\ ~closed
    /\ closed' = TRUE
    /\ Finish("Close", NoConf, Return(Null, NoErr), <<>>)
    /\ UNCHANGED <<constructed, temperatureSensor, apiKey, zipcode>>

\* Lines 195-201: the dependency sensor is asked, then the result composed.
\* Calling Readings on a nil sensor.Sensor panics before any call goes out.
AfterExtract(s, log, output) ==
    IF s.temperatureSensor = NilSensor THEN
        Finish("Readings", NoConf, Panic("temperatureSensor"), log)
    ELSE
        \E sr \in SensorReplies :
            LET log3 == log \o <<Call("sensor", s, s.temperatureSensor, sr, sr.readings, sr.err)>>
            IN  IF sr.err # NoErr
                THEN Finish("Readings", NoConf, SensorFailure(output, sr.err), log3)
                ELSE Finish("Readings", NoConf, Compose(output, sr.readings), log3)

\* Lines 181-193: the astronomy fetch, then the extraction.
AfterWeather(s, w) ==
    \E today \in Dates, astronomyReply \in AstronomyReplies :
        LET a == getCurrentAstronomy(s, today, astronomyReply)
            log == w.log \o a.log
            x == ExtractWeather(w.body, a.body)
        IN  IF a.err # NoErr THEN Finish("Readings", NoConf, Return(Null, a.err), log)
            ELSE IF x.panic THEN Finish("Readings", NoConf, Panic(x.at), log)
            ELSE AfterExtract(s, log, x.output)

\* Readings without the err test after the current-conditions fetch.
ReadingsFromUnchecked(s) ==
    \E currentReply \in CurrentReplies :
        AfterWeather(s, getCurrentWeather(s, currentReply))

\* Lines 175-180: the current-conditions fetch, then the rest.
ReadingsFrom(s) ==
    \E currentReply \in CurrentReplies :
        LET w == getCurrentWeather(s, currentReply)
        IN  IF w.err # NoErr
            THEN Finish("Readings", NoConf, Return(Null, w.err), w.log)
            ELSE AfterWeather(s, w)

\* Readings that hands out the last successful mapping again.
ReadingsCached ==
    /\ constructed /\ ~closed
    /\ IF lastOp = "Readings" /\ ret.kind = "ok"
       THEN Finish("Readings", NoConf, ret, <<>>)
       ELSE ReadingsFrom(Adapter(temperatureSensor, apiKey, zipcode))
    /\ UNCHANGED <<constructed, closed, temperatureSensor, apiKey, zipcode>>

\* weathersensorWeathersensor.Readings on the live adapter.
Readings ==
    /\ constructed /\ ~closed
    /\ ReadingsFrom(Adapter(temperatureSensor, apiKey, zipcode))
    /\ UNCHANGED <<constructed, closed, temperatureSensor, apiKey, zipcode>>

Next == HostValidate \/ HostConstruct \/ HostReconfigure \/ Readings \/ Close

Spec == Init /\ [][Next]_vars

----------------------------------------------------------------------------
(* Claims *)

StepOrder == <<"current", "astronomy", "sensor">>

IsFetch(c) == c.op \in {"current", "astronomy"}

\* C1: Readings makes its outbound calls in the order current conditions,
\* astronomy, dependency sensor, each at most once, and stops at the first
\* fetch that fails: that fetch is the last call made, Readings returns its
\* error and no mapping.  A 500 reply carrying code 1006 and a message gives
\* an API error with that code and message.
C1_FixedOrderStopAtFirstFailure ==
    lastOp = "Readings" =>
        /\ Len(calls) <= Len(StepOrder)
        /\ \A i \in 1..Len(calls) : calls[i].op = StepOrder[i]
        /\ \A i \in 1..Len(calls) :
            (IsFetch(calls[i]) /\ calls[i].err # NoErr) =>
                /\ Len(calls) = i
                /\ ret.kind = "err"
                /\ ret.output = Null
                /\ ret.err = calls[i].err
        /\ \A i \in 1..Len(calls) :
            (IsFetch(calls[i]) /\ calls[i].reply = Resp(500, Obj(ApiErrorBody))) =>
                /\ ret.err.kind = "APIError"
                /\ ret.err.code = Num(1006)
                /\ ret.err.message = Str("No matching location found.")

C1_Witness ==
    /\ lastOp = "Readings"
    /\ Len(calls) = 2
    /\ calls[1].err = NoErr
    /\ calls[2].reply = Resp(500, Obj(ApiErrorBody))
    /\ ret.kind = "err"

\* C2: every network call Readings issues is made by an adapter holding a
\* non-empty API key, a non-zero location code and a resolved
\* temperature-sensor dependency.
C2_CallsOnlyWithValidConfiguration ==
    \A i \in 1..Len(calls) :
        IsFetch(calls[i]) =>
            /\ calls[i].s.apiKey # ""
            /\ calls[i].s.zipcode # 0
            /\ calls[i].s.temperatureSensor # NilSensor

\* C3: Validate names the first failing attribute in the order temp-sensor,
\* apikey, zipcode and returns no dependencies with it; with all three
\* present it returns no error and exactly the configured temp-sensor.
C3_ValidateFirstFailingAttribute ==
    lastOp = "Validate" =>
        LET cfg == lastArg
            named(a) == ret.err = [kind |-> "ValidationError", attribute |-> a] /\ ret.output = <<>>
        IN  /\ cfg.TemperatureSensor = "" => named("temp-sensor")
            /\ (cfg.TemperatureSensor # "" /\ cfg.APIKey = "") => named("apikey")
            /\ (cfg.TemperatureSensor # "" /\ cfg.APIKey # "" /\ cfg.Zipcode = 0) => named("zipcode")
            /\ (cfg.TemperatureSensor # "" /\ cfg.APIKey # "" /\ cfg.Zipcode # 0) =>
                (ret.err = NoErr /\ ret.output = <<cfg.TemperatureSensor>>)

C3_Witness ==
    /\ lastOp = "Validate"
    /\ lastArg.TemperatureSensor # ""
    /\ lastArg.APIKey = ""
    /\ lastArg.Zipcode = 0
    /\ ret.err.kind = "ValidationError"

\* C4: when both fetches succeeded and the dependency sensor's Readings
\* failed, Readings returns no mapping and the dependency's error wrapped
\* with "error getting reading from temp sensor".
C4_SensorFailureWrappedNoPartialResult ==
    (lastOp = "Readings" /\ Len(calls) = 3 /\ calls[3].err # NoErr) =>
        /\ calls[1].err = NoErr
        /\ calls[2].err = NoErr
        /\ ret.kind = "err"
        /\ ret.output = Null
        /\ ret.err.kind = "Wrapped"
        /\ ret.err.context = "error getting reading from temp sensor"
        /\ ret.err.cause = calls[3].err

C4_Witness ==
    /\ lastOp = "Readings"
    /\ Len(calls) = 3
    /\ calls[3].err.kind = "SensorError"
    /\ ret.err.kind = "Wrapped"

OutputKeys ==
    {"outside_f", "condition", "code", "cloud_cover_pct", "precipitation_inches", "is_day", "inside_f"}

\* C5: a Readings that returns without error returns a mapping whose keys are
\* exactly the seven output keys; a Readings that returns an error returns no
\* mapping.
C5_ExactlySevenKeysOrNoMapping ==
    lastOp = "Readings" =>
        /\ ret.kind = "ok" => (ret.output.t = "obj" /\ DOMAIN ret.output.o = OutputKeys)
        /\ ret.kind = "err" => ret.output = Null

C5_Witness ==
    /\ lastOp = "Readings"
    /\ ret.kind = "ok"
    /\ "humidity" \in DOMAIN calls[3].body.o
    /\ DOMAIN ret.output.o = OutputKeys

IsStr(v) == v.t = "str"

\* The documented shape of the current-conditions body.
WellFormedCurrent(b) ==
    LET cur == MapIndex(b, "current")
        cond == MapIndex(cur, "condition")
    IN  /\ IsMap(cur)
        /\ IsFloat64(MapIndex(cur, "temp_f"))
        /\ IsMap(cond)
        /\ IsStr(MapIndex(cond, "text"))
        /\ IsFloat64(MapIndex(cond, "code"))
        /\ IsFloat64(MapIndex(cur, "cloud"))
        /\ IsFloat64(MapIndex(cur, "precip_in"))

\* The documented shape of the astronomy body.
WellFormedAstronomy(b) ==
    LET astro == MapIndex(MapIndex(b, "astronomy"), "astro")
    IN  IsMap(astro) /\ MapIndex(astro, "is_sun_up") # Null

\* C6: Readings never returns a mapping when a fetched body lacks or mistypes
\* an expected field or the dependency reading has no numeric
\* degrees_celsius.
C6_ShapeMismatchNeverSucceeds ==
    (lastOp = "Readings" /\ ret.kind = "ok") =>
        /\ WellFormedCurrent(calls[1].body)
        /\ WellFormedAstronomy(calls[2].body)
        /\ IsFloat64(MapIndex(calls[3].body, "degrees_celsius"))

\* f = c*9/5 + 32 over the fractions, without division.
IsFahrenheitOf(f, c) == f.t = "num" /\ f.n * 5 * c.d = (c.n * 9 + 160 * c.d) * f.d

\* C7: on every successful Readings, inside_f is C*9/5 + 32 for the
\* degrees_celsius C the dependency returned in that call, whatever the
\* weather replies were; 0 gives 32 and 100 gives 212.
C7_InsideFahrenheit ==
    (lastOp = "Readings" /\ ret.kind = "ok") =>
        LET c == MapIndex(calls[3].body, "degrees_celsius")
            f == ret.output.o.inside_f
        IN  /\ IsFahrenheitOf(f, c)
            /\ c = Num(0) => f = Num(32)
            /\ c = Num(100) => f = Num(212)

C7_Witness ==
    /\ lastOp = "Readings"
    /\ ret.kind = "ok"
    /\ MapIndex(calls[3].body, "degrees_celsius") = Num(100)
    /\ ret.output.o.inside_f = Num(212)
    /\ calls[1].body = Obj([current |-> Obj(OtherCurrent)])

\* The mapping is the one the three replies of this call determine.
DeterminedBy(output, log) ==
    /\ Len(log) = 3
    /\ LET cur == MapIndex(log[1].reply.body, "current")
           cond == MapIndex(cur, "condition")
           astro == MapIndex(MapIndex(log[2].reply.body, "astronomy"), "astro")
           o == output.o
       IN  /\ o.outside_f = MapIndex(cur, "temp_f")
           /\ o.condition = MapIndex(cond, "text")
           /\ o.code = MapIndex(cond, "code")
           /\ o.cloud_cover_pct = MapIndex(cur, "cloud")
           /\ o.precipitation_inches = MapIndex(cur, "precip_in")
           /\ o.is_day = MapIndex(astro, "is_sun_up")
           /\ IsFahrenheitOf(o.inside_f, MapIndex(log[3].reply.readings, "degrees_celsius"))

\* C8: a Readings step leaves the adapter's sensor reference, API key and
\* location code as they were, and the mapping it returns is the one the
\* replies received during that same step determine.
C8_ReadingsKeepsNoState ==
    [][lastOp' = "Readings" =>
        /\ UNCHANGED <<temperatureSensor, apiKey, zipcode>>
        /\ ret'.kind = "ok" => DeterminedBy(ret'.output, calls')]_vars

C8_Witness ==
    /\ lastOp = "Readings"
    /\ ret.kind = "ok"
    /\ ret.output.o.outside_f = OtherCurrent.temp_f
    /\ ret.output.o.is_day = Num(0)
    /\ temperatureSensor = "t2"
    /\ apiKey = "k1"
    /\ zipcode = MaxZipcode

\* The outcome of one fetch, given which bodies count as undecodable.
Classified(c, undecodable) ==
    LET r == c.reply
    IN  IF r.kind # "resp" THEN
            c.err.kind = "TransportError" /\ c.body = Null
        ELSE IF r.body.t \in undecodable THEN
            c.err.kind = "DecodeError" /\ c.body = Null
        ELSE IF r.status # 200 THEN
            IF ~HasKey(r.body, "code") THEN
                c.err.kind = "UnexpectedStatusError" /\ c.err.missing = "code" /\ c.body = Null
            ELSE IF ~HasKey(r.body, "message") THEN
                c.err.kind = "UnexpectedStatusError" /\ c.err.missing = "message" /\ c.body = Null
            ELSE
                /\ c.err.kind = "APIError"
                /\ c.err.code = r.body.o.code
                /\ c.err.message = r.body.o.message
                /\ c.body = r.body
        ELSE
            c.err = NoErr /\ c.body = r.body

\* C9 as stated: only a body that is not valid JSON is a decode error; every
\* valid JSON body goes on to the status check.
C9_Original_InvalidJSONOnly ==
    \A i \in 1..Len(calls) : IsFetch(calls[i]) => Classified(calls[i], {"garbage"})

\* C9 as amended: a body that is not valid JSON, or is valid JSON other than
\* an object or null, is a decode error with no body whatever the status;
\* the other precedences are as stated.
C9_FetchClassification ==
    \A i \in 1..Len(calls) : IsFetch(calls[i]) => Classified(calls[i], {"garbage", "arr"})

C9_Witness ==
    /\ lastOp = "Readings"
    /\ Len(calls) = 1
    /\ calls[1].reply = Resp(StatusOK, Arr)
    /\ ret.err.kind = "DecodeError"

\* C10: a Reconfigure that returns an error leaves the sensor reference, the
\* API key and the location code as they were; one that succeeds replaces
\* all three by the new configuration's values.
C10_ReconfigureAllOrNothing ==
    [][lastOp' = "Reconfigure" =>
        /\ ret'.err # NoErr => UNCHANGED <<temperatureSensor, apiKey, zipcode>>
        /\ ret'.err = NoErr =>
            /\ temperatureSensor' = lastArg'.TemperatureSensor
            /\ apiKey' = lastArg'.APIKey
            /\ zipcode' = lastArg'.Zipcode]_vars

====
